---- MODULE Spec2Model ----
(***************************************************************************)
(* Model of photo_bot.infrastructure.config.settings: the validated        *)
(* Settings record, the process-wide cached instance behind get_settings / *)
(* reload_settings, and the uncached get_test_settings path.               *)
(*                                                                         *)
(* Python values are represented as follows.  A str is a TLA+ string (a    *)
(* sequence of characters: Len, SubSeq and \o apply).  An Optional value   *)
(* is a sequence of length at most one: None is << >> and a present value  *)
(* x is <<x>>.  A source of raw values (os.environ, a dotenv file) is a    *)
(* function from the names it holds to their raw strings, so "the variable *)
(* is not set" is "the name is not in the DOMAIN".                         *)
(* SUPPORTED_FORMATS is held at its default and is not part of the record. *)
(***************************************************************************)
EXTENDS Integers, Sequences, FiniteSets, TLC

\* ------------------------------------------------------------------ values

None == << >>

Some(x) == <<x>>

\* str.startswith
StartsWith(v, p) == Len(v) >= Len(p) /\ SubSeq(v, 1, Len(p)) = p

\* c in v, for a one-character c
Contains(v, c) == \E i \in 1..Len(v) : SubSeq(v, i, i) = c

Digits == {"0", "1", "2", "3", "4", "5", "6", "7", "8", "9"}

DigitVal(c) ==
    CASE c = "0" -> 0 [] c = "1" -> 1 [] c = "2" -> 2 [] c = "3" -> 3
      [] c = "4" -> 4 [] c = "5" -> 5 [] c = "6" -> 6 [] c = "7" -> 7
      [] c = "8" -> 8 [] c = "9" -> 9

AllDigits(s) == Len(s) >= 1 /\ \A i \in 1..Len(s) : SubSeq(s, i, i) \in Digits

\* Whether a raw string is a decimal integer: an optional sign, then digits.
IsInt(s) ==
    IF Len(s) >= 1 /\ SubSeq(s, 1, 1) \in {"-", "+"}
    THEN AllDigits(SubSeq(s, 2, Len(s)))
    ELSE AllDigits(s)

RECURSIVE NatOf(_)
NatOf(s) ==
    IF Len(s) = 0 THEN 0
    ELSE 10 * NatOf(SubSeq(s, 1, Len(s) - 1)) + DigitVal(SubSeq(s, Len(s), Len(s)))

\* The int a raw string that IsInt denotes.
ParseInt(s) ==
    IF SubSeq(s, 1, 1) = "-" THEN 0 - NatOf(SubSeq(s, 2, Len(s)))
    ELSE IF SubSeq(s, 1, 1) = "+" THEN NatOf(SubSeq(s, 2, Len(s)))
    ELSE NatOf(s)

BoolTrue == {"1", "on", "t", "true", "y", "yes"}

BoolFalse == {"0", "off", "f", "false", "n", "no"}

\* The outcome of validating one field: ok, and the value when ok (a value of
\* the field's type stands in when not ok; it is never read).
Ok(x) == [ok |-> TRUE, v |-> x]

Err(x) == [ok |-> FALSE, v |-> x]

\* dict.get(key, default)
Get(d, key, default) == IF key \in DOMAIN d THEN d[key] ELSE default

\* ------------------------------------------------- field bounds and defaults

PORT_ge == 1000
PORT_le == 65535
PORT_default == 8000
MAX_IMAGE_SIZE_MB_ge == 1
MAX_IMAGE_SIZE_MB_le == 50
MAX_IMAGE_SIZE_MB_default == 10
DEFAULT_IMAGE_QUALITY_ge == 1
DEFAULT_IMAGE_QUALITY_le == 100
DEFAULT_IMAGE_QUALITY_default == 85
REQUEST_TIMEOUT_ge == 5
REQUEST_TIMEOUT_le == 120
REQUEST_TIMEOUT_default == 30
SESSION_TTL_ge == 300
SESSION_TTL_le == 86400
SESSION_TTL_default == 3600
RATE_LIMIT_PER_MINUTE_ge == 1
RATE_LIMIT_PER_MINUTE_le == 1000
RATE_LIMIT_PER_MINUTE_default == 20
TOKEN_MIN_LEN == 30
DEV_PORT_A == 8000
DEV_PORT_B == 8080
BYTES_PER_KB == 1024

TOKEN_PLACEHOLDER == "your_telegram_bot_token_here"

KEY_PLACEHOLDER == "your_photoroom_api_key_here"

WEBHOOK_PLACEHOLDER_PREFIX == "https://yourdomain"

SECRET_TOKEN_default == "my_secret_token_123"

HOST_default == "127.0.0.1"

DEFAULT_PROCESSOR_default == "photoroom"

LOG_LEVEL_default == "INFO"

Processors == {"photoroom", "pillow"}

LogLevels == {"DEBUG", "INFO", "WARNING", "ERROR", "CRITICAL"}

IntFields ==
    {"PORT", "MAX_IMAGE_SIZE_MB", "DEFAULT_IMAGE_QUALITY", "REQUEST_TIMEOUT",
     "SESSION_TTL", "RATE_LIMIT_PER_MINUTE"}

BoolFields == {"ENABLE_PHOTOROOM", "ENABLE_PILLOW", "ENABLE_FILE_LOGGING"}

StrFields ==
    {"TELEGRAM_BOT_TOKEN", "PHOTOROOM_API_KEY", "SECRET_TOKEN", "HOST",
     "WEBHOOK_URL", "DEFAULT_PROCESSOR", "LOG_LEVEL"}

FieldNames == IntFields \cup BoolFields \cup StrFields

\* --------------------------------------------------------------- validation

\* An int field whose limits are exclusive (gt/lt in place of ge/le).
IntField_exclusive(src, name, default, ge, le) ==
    IF name \notin DOMAIN src THEN Ok(default)
    ELSE IF ~IsInt(src[name]) THEN Err(default)
    ELSE IF ParseInt(src[name]) <= ge \/ ParseInt(src[name]) >= le THEN Err(default)
    ELSE Ok(ParseInt(src[name]))

\* An int field with ge/le: unset -> the default (not validated); set -> parsed,
\* then range-checked.
IntField(src, name, default, ge, le) ==
    IF name \notin DOMAIN src THEN Ok(default)
    ELSE IF ~IsInt(src[name]) THEN Err(default)
    ELSE IF ParseInt(src[name]) < ge \/ ParseInt(src[name]) > le THEN Err(default)
    ELSE Ok(ParseInt(src[name]))

\* A bool field: unset -> the default; set -> one of the accepted literals
\* (the raw values drawn in this module are lower-case).
BoolField(src, name, default) ==
    IF name \notin DOMAIN src THEN Ok(default)
    ELSE IF src[name] \in BoolTrue THEN Ok(TRUE)
    ELSE IF src[name] \in BoolFalse THEN Ok(FALSE)
    ELSE Err(default)

\* A str field with a default and no constraint.
StrField(src, name, default) ==
    IF name \notin DOMAIN src THEN Ok(default) ELSE Ok(src[name])

\* The token's format check with `and` in place of `or`.
validate_telegram_token_and(v) ==
    IF v = "" \/ v = TOKEN_PLACEHOLDER THEN Err(v)
    ELSE IF ~Contains(v, ":") /\ Len(v) < TOKEN_MIN_LEN THEN Err(v)
    ELSE Ok(v)

\* @validator('TELEGRAM_BOT_TOKEN')
validate_telegram_token(v) ==
    IF v = "" \/ v = TOKEN_PLACEHOLDER THEN Err(v)
    ELSE IF ~Contains(v, ":") \/ Len(v) < TOKEN_MIN_LEN THEN Err(v)
    ELSE Ok(v)

\* @validator('PHOTOROOM_API_KEY')
validate_photoroom_key(v) ==
    IF v = "" \/ v = KEY_PLACEHOLDER THEN Err(v) ELSE Ok(v)

\* The webhook check comparing with the whole example URL, not its prefix.
validate_webhook_url_exact(v) ==
    IF v # "" /\ v = "https://yourdomain.example" THEN Ok(None)
    ELSE Ok(Some(v))

\* @validator('WEBHOOK_URL'): the result is Optional[str]
validate_webhook_url(v) ==
    IF v # "" /\ StartsWith(v, WEBHOOK_PLACEHOLDER_PREFIX) THEN Ok(None)
    ELSE Ok(Some(v))

\* @validator('DEFAULT_PROCESSOR'); values holds the fields validated so far
validate_default_processor(v, values) ==
    IF v = "photoroom" /\ ~Get(values, "ENABLE_PHOTOROOM", TRUE) THEN Err(v)
    ELSE IF v = "pillow" /\ ~Get(values, "ENABLE_PILLOW", TRUE) THEN Err(v)
    ELSE Ok(v)

\* A required str field (default=...) with its validator: unset -> missing.
TELEGRAM_BOT_TOKEN_field(src) ==
    IF "TELEGRAM_BOT_TOKEN" \notin DOMAIN src THEN Err("")
    ELSE validate_telegram_token(src["TELEGRAM_BOT_TOKEN"])

PHOTOROOM_API_KEY_field(src) ==
    IF "PHOTOROOM_API_KEY" \notin DOMAIN src THEN Err("")
    ELSE validate_photoroom_key(src["PHOTOROOM_API_KEY"])

\* Optional[str], default None; the validator runs only on a supplied value.
WEBHOOK_URL_field(src) ==
    IF "WEBHOOK_URL" \notin DOMAIN src THEN Ok(None)
    ELSE validate_webhook_url(src["WEBHOOK_URL"])

\* str with pattern ^(photoroom|pillow)$; the validator runs only on a
\* supplied value that matched the pattern, never on the default.
DEFAULT_PROCESSOR_field(src, values) ==
    IF "DEFAULT_PROCESSOR" \notin DOMAIN src THEN Ok(DEFAULT_PROCESSOR_default)
    ELSE IF src["DEFAULT_PROCESSOR"] \notin Processors THEN Err(DEFAULT_PROCESSOR_default)
    ELSE validate_default_processor(src["DEFAULT_PROCESSOR"], values)

\* str with pattern ^(DEBUG|INFO|WARNING|ERROR|CRITICAL)$
LOG_LEVEL_field(src) ==
    IF "LOG_LEVEL" \notin DOMAIN src THEN Ok(LOG_LEVEL_default)
    ELSE IF src["LOG_LEVEL"] \notin LogLevels THEN Err(LOG_LEVEL_default)
    ELSE Ok(src["LOG_LEVEL"])

\* values as validate_default_processor receives it: the fields declared
\* before DEFAULT_PROCESSOR whose own validation succeeded (of them the
\* validator reads the two toggles).
ValuesBefore(src) ==
    [n \in {m \in {"ENABLE_PHOTOROOM", "ENABLE_PILLOW"} : BoolField(src, m, TRUE).ok}
        |-> BoolField(src, n, TRUE).v]

\* The outcome of one field of Settings.
FieldResult(src, n) ==
    CASE n = "TELEGRAM_BOT_TOKEN" -> TELEGRAM_BOT_TOKEN_field(src)
      [] n = "PHOTOROOM_API_KEY" -> PHOTOROOM_API_KEY_field(src)
      [] n = "SECRET_TOKEN" -> StrField(src, n, SECRET_TOKEN_default)
      [] n = "HOST" -> StrField(src, n, HOST_default)
      [] n = "PORT" -> IntField(src, n, PORT_default, PORT_ge, PORT_le)
      [] n = "WEBHOOK_URL" -> WEBHOOK_URL_field(src)
      [] n = "MAX_IMAGE_SIZE_MB" ->
             IntField(src, n, MAX_IMAGE_SIZE_MB_default,
                      MAX_IMAGE_SIZE_MB_ge, MAX_IMAGE_SIZE_MB_le)
      [] n = "DEFAULT_IMAGE_QUALITY" ->
             IntField(src, n, DEFAULT_IMAGE_QUALITY_default,
                      DEFAULT_IMAGE_QUALITY_ge, DEFAULT_IMAGE_QUALITY_le)
      [] n = "REQUEST_TIMEOUT" ->
             IntField(src, n, REQUEST_TIMEOUT_default,
                      REQUEST_TIMEOUT_ge, REQUEST_TIMEOUT_le)
      [] n = "SESSION_TTL" ->
             IntField(src, n, SESSION_TTL_default, SESSION_TTL_ge, SESSION_TTL_le)
      [] n = "RATE_LIMIT_PER_MINUTE" ->
             IntField(src, n, RATE_LIMIT_PER_MINUTE_default,
                      RATE_LIMIT_PER_MINUTE_ge, RATE_LIMIT_PER_MINUTE_le)
      [] n = "ENABLE_PHOTOROOM" -> BoolField(src, n, TRUE)
      [] n = "ENABLE_PILLOW" -> BoolField(src, n, TRUE)
      [] n = "DEFAULT_PROCESSOR" -> DEFAULT_PROCESSOR_field(src, ValuesBefore(src))
      [] n = "LOG_LEVEL" -> LOG_LEVEL_field(src)
      [] n = "ENABLE_FILE_LOGGING" -> BoolField(src, n, TRUE)

\* Settings(): ok, the names of the fields in the ValidationError, and the
\* field values of the instance (read only when ok).
Construct(src) ==
    [ok |-> \A n \in FieldNames : FieldResult(src, n).ok,
     errs |-> {n \in FieldNames : ~FieldResult(src, n).ok},
     fields |-> [n \in FieldNames |-> FieldResult(src, n).v]]

\* ------------------------------------------------------- derived properties

\* is_development without the second local port.
is_development_one_port(s) ==
    s.HOST \in {"127.0.0.1", "localhost"} \/ s.PORT \in {DEV_PORT_A}

is_development(s) ==
    s.HOST \in {"127.0.0.1", "localhost"} \/ s.PORT \in {DEV_PORT_A, DEV_PORT_B}

is_production(s) == s.WEBHOOK_URL # None /\ ~is_development(s)

max_image_size_bytes(s) == s.MAX_IMAGE_SIZE_MB * BYTES_PER_KB * BYTES_PER_KB

webhook_enabled(s) == s.WEBHOOK_URL # None /\ is_production(s)

\* -------------------------------------------------------------------- state

MaxInstances == 3

VARIABLES
    environ,             \* os.environ: name -> raw string
    dotenv,              \* the .env file: name -> raw string
    dotenv_test,         \* the .env.test file: name -> raw string
    _settings_instance,  \* the module global: None or Some(instance)
    next_id,             \* identity of the next object constructed
    last,                \* the latest call: operation, outcome, cache before it
    failed,              \* None, or Some(operation and cache before it) when the
                         \* latest get_settings/reload_settings raised
    last_reload,         \* None, or Some(sources and cache at the latest
                         \* reload_settings that returned)
    loads,               \* instances get_settings built since the latest
                         \* reload_settings began (or since import)
    pc,                  \* per thread: position in get_settings/reload_settings
    rets                 \* per thread: what its latest call handed back

vars ==
    <<environ, dotenv, dotenv_test, _settings_instance, next_id, last, failed,
      last_reload, loads, pc, rets>>

\* Sources in priority order: a name set in hi wins over the same name in lo.
Merge(hi, lo) ==
    [n \in DOMAIN hi \cup DOMAIN lo |-> IF n \in DOMAIN hi THEN hi[n] ELSE lo[n]]

\* load_dotenv() at import: every name of .env not yet in os.environ is set.
load_dotenv(env, file) == Merge(env, file)

\* What Settings() reads: os.environ, then env_file = '.env'.
SettingsSource == Merge(environ, dotenv)

\* What TestSettings() reads: os.environ, then env_file = '.env.test'.
TestSettingsSource == Merge(environ, dotenv_test)

Instance(id, fields) == [id |-> id, f |-> fields]

NoCall ==
    [op |-> "import", raised |-> FALSE, ret |-> None, errs |-> {}, prev |-> None,
     built |-> FALSE, after_fail |-> None, out |-> "none"]

\* The try block of get_settings and its except branch: Settings() is
\* assigned to the global and the summary printed, or the error is printed
\* and re-raised with the global still None.
BuildAndCache(src, id) ==
    LET c == Construct(src) IN
    IF c.ok
    THEN [inst |-> Some(Instance(id, c.fields)), raised |-> FALSE,
          ret |-> Some(Instance(id, c.fields)), errs |-> {},
          built |-> TRUE, out |-> "summary"]
    ELSE [inst |-> None, raised |-> TRUE, ret |-> None, errs |-> c.errs,
          built |-> FALSE, out |-> "error"]

\* get_settings without its `is None` test: every call builds anew.
GetSettingsCall_always_builds(inst, src, id) == BuildAndCache(src, id)

\* The body of get_settings run to completion on a global holding inst:
\* the global afterwards, whether the call raised, what it returned, the
\* fields named by the error, whether an instance was built, what was printed.
GetSettingsCall(inst, src, id) ==
    IF inst # None
    THEN [inst |-> inst, raised |-> FALSE, ret |-> inst, errs |-> {},
          built |-> FALSE, out |-> "none"]
    ELSE BuildAndCache(src, id)

\* reload_settings without `_settings_instance = None`.
ReloadSettingsCall_no_clear(inst, src, id) == GetSettingsCall(inst, src, id)

\* reload_settings that puts the old instance back when the new load fails.
ReloadSettingsCall_keeps_old(inst, src, id) ==
    IF Construct(src).ok THEN GetSettingsCall(None, src, id)
    ELSE [GetSettingsCall(None, src, id) EXCEPT !.inst = inst]

\* reload_settings: the global is set to None, then get_settings runs.
ReloadSettingsCall(inst, src, id) == GetSettingsCall(None, src, id)

\* get_test_settings going through the cached accessor.
GetTestSettingsCall_through_cache(inst, src, id) == GetSettingsCall(inst, src, id)

\* get_test_settings: TestSettings() and nothing else; the global is not read
\* and comes back as it was.
GetTestSettingsCall(inst, src, id) ==
    LET c == Construct(src) IN
    IF c.ok
    THEN [inst |-> inst, raised |-> FALSE, ret |-> Some(Instance(id, c.fields)),
          errs |-> {}, built |-> TRUE, out |-> "none"]
    ELSE [inst |-> inst, raised |-> TRUE, ret |-> None, errs |-> c.errs,
          built |-> FALSE, out |-> "none"]

Record(op, r) ==
    [op |-> op, raised |-> r.raised, ret |-> r.ret, errs |-> r.errs,
     prev |-> _settings_instance, built |-> r.built, after_fail |-> failed,
     out |-> r.out]

\* ------------------------------------------------------ single-thread calls

get_settings ==
    \E r \in {GetSettingsCall(_settings_instance, SettingsSource, next_id)} :
    /\ next_id <= MaxInstances
    /\ _settings_instance' = r.inst
    /\ next_id' = IF r.built THEN next_id + 1 ELSE next_id
    /\ last' = Record("get_settings", r)
    /\ failed' = IF r.raised
                 THEN Some([op |-> "get_settings", prev |-> _settings_instance])
                 ELSE None
    /\ loads' = IF r.built THEN loads + 1 ELSE loads
    /\ UNCHANGED <<environ, dotenv, dotenv_test, last_reload, pc, rets>>

reload_settings ==
    \E r \in {ReloadSettingsCall(_settings_instance, SettingsSource, next_id)} :
    /\ next_id <= MaxInstances
    /\ _settings_instance' = r.inst
    /\ next_id' = IF r.built THEN next_id + 1 ELSE next_id
    /\ last' = Record("reload_settings", r)
    /\ failed' = IF r.raised
                 THEN Some([op |-> "reload_settings", prev |-> _settings_instance])
                 ELSE None
    /\ loads' = IF r.built THEN 1 ELSE 0
    /\ last_reload' =
           IF r.raised THEN None
           ELSE Some([src |-> SettingsSource, prev |-> _settings_instance])
    /\ UNCHANGED <<environ, dotenv, dotenv_test, pc, rets>>

get_test_settings ==
    \E r \in {GetTestSettingsCall(_settings_instance, TestSettingsSource, next_id)} :
    /\ next_id <= MaxInstances
    /\ _settings_instance' = r.inst
    /\ next_id' = IF r.built THEN next_id + 1 ELSE next_id
    /\ last' = Record("get_test_settings", r)
    /\ UNCHANGED <<environ, dotenv, dotenv_test, failed, last_reload, loads, pc, rets>>

\* ------------------------------------------- changes to the sources of values

Edited == [NoCall EXCEPT !.op = "edit"]

Without(d, name) == [n \in DOMAIN d \ {name} |-> d[n]]

\* os.environ[name] = value, or del os.environ[name]
setenv(name, value) ==
    /\ environ' = Merge(name :> value, environ)
    /\ last' = Edited
    /\ UNCHANGED <<dotenv, dotenv_test, _settings_instance, next_id, failed,
                   last_reload, loads, pc, rets>>

unsetenv(name) ==
    /\ name \in DOMAIN environ
    /\ environ' = Without(environ, name)
    /\ last' = Edited
    /\ UNCHANGED <<dotenv, dotenv_test, _settings_instance, next_id, failed,
                   last_reload, loads, pc, rets>>

\* The operator edits a line of .env while the process runs.
write_dotenv(name, value) ==
    /\ dotenv' = Merge(name :> value, dotenv)
    /\ last' = Edited
    /\ UNCHANGED <<environ, dotenv_test, _settings_instance, next_id, failed,
                   last_reload, loads, pc, rets>>

\* The operator edits a line of .env.test while the process runs.
write_dotenv_test(name, value) ==
    /\ dotenv_test' = Merge(name :> value, dotenv_test)
    /\ last' = Edited
    /\ UNCHANGED <<environ, dotenv, _settings_instance, next_id, failed,
                   last_reload, loads, pc, rets>>

\* ------------------------------------------------------------------ threads

NThreads == 2

Threads == 1..NThreads

Idle == [at |-> "idle", op |-> "none"]

NoRet == [op |-> "none", raised |-> FALSE, value |-> None]

\* A thread calls get_settings and runs `if _settings_instance is None`.
get_settings_check(t) ==
    /\ pc[t].at = "idle"
    /\ pc' = [pc EXCEPT ![t] =
                 [at |-> IF _settings_instance = None THEN "construct" ELSE "return",
                  op |-> "get_settings"]]
    /\ UNCHANGED <<environ, dotenv, dotenv_test, _settings_instance, next_id, last,
                   failed, last_reload, loads, rets>>

\* A thread calls reload_settings and runs `_settings_instance = None`.
reload_settings_clear(t) ==
    /\ pc[t].at = "idle"
    /\ _settings_instance' = None
    /\ pc' = [pc EXCEPT ![t] = [at |-> "check", op |-> "reload_settings"]]
    /\ UNCHANGED <<environ, dotenv, dotenv_test, next_id, last, failed,
                   last_reload, loads, rets>>

\* reload_settings has called get_settings: `if _settings_instance is None`.
reload_settings_check(t) ==
    /\ pc[t].at = "check"
    /\ pc' = [pc EXCEPT ![t].at =
                 IF _settings_instance = None THEN "construct" ELSE "return"]
    /\ UNCHANGED <<environ, dotenv, dotenv_test, _settings_instance, next_id, last,
                   failed, last_reload, loads, rets>>

\* `_settings_instance = Settings()` and the summary, or the except branch.
construct_and_assign(t) ==
    \E c \in {Construct(SettingsSource)} :
    /\ pc[t].at = "construct"
    /\ next_id <= MaxInstances
    /\ IF c.ok
       THEN /\ _settings_instance' = Some(Instance(next_id, c.fields))
            /\ next_id' = next_id + 1
            /\ pc' = [pc EXCEPT ![t].at = "return"]
            /\ rets' = rets
       ELSE /\ rets' = [rets EXCEPT ![t] =
                           [op |-> pc[t].op, raised |-> TRUE, value |-> None]]
            /\ pc' = [pc EXCEPT ![t] = Idle]
            /\ UNCHANGED <<_settings_instance, next_id>>
    /\ UNCHANGED <<environ, dotenv, dotenv_test, last, failed, last_reload, loads>>

\* `return _settings_instance`: the global is read again.
return_global(t) ==
    /\ pc[t].at = "return"
    /\ rets' = [rets EXCEPT ![t] =
                   [op |-> pc[t].op, raised |-> FALSE, value |-> _settings_instance]]
    /\ pc' = [pc EXCEPT ![t] = Idle]
    /\ UNCHANGED <<environ, dotenv, dotenv_test, _settings_instance, next_id, last,
                   failed, last_reload, loads>>

\* ------------------------------------------------------------ specifications

TOKEN_OK == "1234567890:ABCDEFGHIJKLMNOPQRSTUVWXYZabcdefghi"

KEY_OK == "photoroom_apikey_1234567890abcdef"

Empty == [n \in {} |-> ""]

\* An environment in which both required secrets are set and valid.
BaseEnv == ("TELEGRAM_BOT_TOKEN" :> TOKEN_OK) @@ ("PHOTOROOM_API_KEY" :> KEY_OK)

\* The source that sets name n to the one element of opt[n], where there is one.
FromOptions(opt) ==
    [n \in {m \in DOMAIN opt : opt[m] # {}} |-> CHOOSE v \in opt[n] : TRUE]

\* The choices for one name: unset, or one of the raw strings.
Options(raws) == {{}} \cup {{v} : v \in raws}

\* The state once the module is imported, with os.environ and .env as given.
Imported(env, file, test_file) ==
    /\ environ = load_dotenv(env, file)
    /\ dotenv = file
    /\ dotenv_test = test_file
    /\ _settings_instance = None
    /\ next_id = 1
    /\ last = NoCall
    /\ failed = None
    /\ last_reload = None
    /\ loads = 0
    /\ pc = [t \in Threads |-> Idle]
    /\ rets = [t \in Threads |-> NoRet]

Calls == get_settings \/ reload_settings \/ get_test_settings

PortRaws == {"9000", "9001", "999"}

DotenvPortRaws == {"9002", "9004"}

TestPortRaws == {"9003", "70000"}

\* The cache's life in one thread, while the sources of values change.
Init ==
    \E file \in {Empty, "PORT" :> "9002"} : Imported(BaseEnv, file, Empty)

Next ==
    \/ Calls
    \/ \E v \in PortRaws : setenv("PORT", v)
    \/ unsetenv("PORT")
    \/ \E v \in DotenvPortRaws : write_dotenv("PORT", v)
    \/ \E v \in TestPortRaws : write_dotenv_test("PORT", v)

Spec == Init /\ [][Next]_vars

\* Two threads calling get_settings and reload_settings in a valid environment.
NextConc ==
    \E t \in Threads :
        \/ get_settings_check(t)
        \/ reload_settings_clear(t)
        \/ reload_settings_check(t)
        \/ construct_and_assign(t)
        \/ return_global(t)

InitConc == \E p \in Options({"9000"}) : Imported(Merge(FromOptions([PORT |-> p]), BaseEnv), Empty, Empty)

SpecConc == InitConc /\ [][NextConc]_vars

TestFile == "HOST" :> "testhost"

\* The secrets, each unset, empty, a placeholder, malformed or valid, beside
\* other fields valid and invalid.
TokenRaws ==
    {"", TOKEN_PLACEHOLDER, TOKEN_OK,
     "1234567890ABCDEFGHIJKLMNOPQRSTUVWXYZ",
     "123456789:ABCDEFGHIJKLMNOPQRS",
     "1234567890:ABCDEFGHIJKLMNOPQRS",
     ":"}

KeyRaws == {"", KEY_PLACEHOLDER, KEY_OK}

InitSecrets ==
    \E t \in Options(TokenRaws), k \in Options(KeyRaws),
       p \in Options({"999", "9000"}), d \in Options({"pillow", "gimp"}) :
        Imported(FromOptions([TELEGRAM_BOT_TOKEN |-> t, PHOTOROOM_API_KEY |-> k,
                              PORT |-> p, DEFAULT_PROCESSOR |-> d]),
                 Empty, TestFile)

SpecSecrets == InitSecrets /\ [][Calls]_vars

\* The numeric fields just outside and on their limits; SESSION_TTL and
\* RATE_LIMIT_PER_MINUTE are drawn as pairs.
TtlRatePairs ==
    {<<"299", "1001">>, <<"300", "1">>, <<"86400", "1000">>, <<"86401", "1">>,
     <<"300", "0">>, <<"86400", "-1">>}

InitNumeric ==
    \E p \in Options({"999", "1000", "65535", "65536", "abc"}),
       m \in {{v} : v \in {"0", "1", "50", "51"}},
       q \in {{v} : v \in {"0", "1", "100", "101"}},
       r \in {{v} : v \in {"4", "5", "120", "121"}},
       sl \in TtlRatePairs :
        Imported(Merge(FromOptions([PORT |-> p, MAX_IMAGE_SIZE_MB |-> m,
                                    DEFAULT_IMAGE_QUALITY |-> q, REQUEST_TIMEOUT |-> r,
                                    SESSION_TTL |-> {sl[1]},
                                    RATE_LIMIT_PER_MINUTE |-> {sl[2]}]),
                       BaseEnv),
                 Empty, TestFile)

SpecNumeric == InitNumeric /\ [][Calls]_vars

\* The default processor and the two toggles.
ToggleRaws == {"true", "false", "1", "0", "maybe"}

InitProcessor ==
    \E a \in Options(ToggleRaws), b \in Options(ToggleRaws),
       d \in Options({"photoroom", "pillow", "gimp"}) :
        Imported(Merge(FromOptions([ENABLE_PHOTOROOM |-> a, ENABLE_PILLOW |-> b,
                                    DEFAULT_PROCESSOR |-> d]),
                       BaseEnv),
                 Empty, TestFile)

SpecProcessor == InitProcessor /\ [][Calls]_vars

\* Host, port and webhook URL.
HostRaws == {"127.0.0.1", "localhost", "0.0.0.0", "bot.example.org"}

WebhookRaws ==
    {"", "https://yourdomain.example", "https://yourdomain.com", "https://yourdomain",
     "https://yourdomai", "http://yourdomain.example", "https://bot.example.org/hook"}

InitWebhook ==
    \E h \in Options(HostRaws), p \in Options({"8000", "8080", "8001", "9000"}),
       w \in Options(WebhookRaws) :
        Imported(Merge(FromOptions([HOST |-> h, PORT |-> p, WEBHOOK_URL |-> w]),
                       BaseEnv),
                 Empty, Empty)

SpecWebhook == InitWebhook /\ [][Calls]_vars

\* =================================================================== claims

\* The latest call ran Settings() or TestSettings().
Attempted ==
    \/ last.op \in {"reload_settings", "get_test_settings"}
    \/ last.op = "get_settings" /\ last.prev = None

\* The sources that call read.
UsedSource == IF last.op = "get_test_settings" THEN TestSettingsSource ELSE SettingsSource

\* C1: in one thread, between two reload_settings calls (or since import),
\* get_settings builds at most one instance: a call that finds the global
\* unset and does not raise builds and caches the instance it returns, and a
\* call that finds an instance cached returns that instance, builds nothing
\* and leaves the global alone, whatever the sources of values hold by then.
C1_ConstructedAtMostOnce ==
    /\ loads <= 1
    /\ (last.op = "get_settings" /\ last.prev # None) =>
           /\ ~last.built /\ ~last.raised
           /\ last.ret = last.prev
           /\ _settings_instance = last.prev
    /\ (last.op = "get_settings" /\ last.prev = None /\ ~last.raised) =>
           /\ last.built
           /\ last.ret # None
           /\ _settings_instance = last.ret

\* A cached instance is returned although the sources, still valid, would now
\* give other field values.
C1_Witness ==
    /\ last.op = "get_settings" /\ last.prev # None
    /\ loads = 1
    /\ Construct(SettingsSource).ok
    /\ Construct(SettingsSource).fields # last.ret[1].f

C3_FailureLeavesUnloaded ==
    /\ (/\ last.op \in {"get_settings", "reload_settings"}
        /\ last.op = "reload_settings" \/ last.prev = None
        /\ ~Construct(SettingsSource).ok) =>
           last.raised /\ last.errs # {}
    /\ (last.op \in {"get_settings", "reload_settings"} /\ last.raised) =>
           /\ last.ret = None
           /\ ~last.built
           /\ failed # None
    /\ failed # None => _settings_instance = None
    /\ (last.op = "get_settings" /\ last.after_fail # None
        /\ Construct(SettingsSource).ok) =>
           /\ ~last.raised
           /\ last.built
           /\ last.ret = _settings_instance
           /\ last.ret[1].f = Construct(SettingsSource).fields

\* A reload failed with an instance cached, and the next get_settings call,
\* the sources valid again, built a new instance.
C3_Witness ==
    /\ last.op = "get_settings"
    /\ last.built
    /\ last.after_fail # None
    /\ last.after_fail[1].op = "reload_settings"
    /\ last.after_fail[1].prev # None
    /\ last.ret # last.after_fail[1].prev

\* C9: a get_test_settings call leaves the global as it found it, raises
\* exactly when TestSettings() fails, and otherwise returns an instance built
\* from the test sources whose identity is new: it is not the cached
\* instance, and every instance built before it has a smaller identity.
C9_TestSettingsBypassCache ==
    last.op = "get_test_settings" =>
        /\ _settings_instance = last.prev
        /\ last.raised <=> ~Construct(TestSettingsSource).ok
        /\ last.raised => last.ret = None
        /\ ~last.raised =>
               /\ last.ret # None
               /\ last.ret # _settings_instance
               /\ last.ret[1].id = next_id - 1
               /\ _settings_instance # None =>
                      _settings_instance[1].id < last.ret[1].id
               /\ last.ret[1].f = Construct(TestSettingsSource).fields

\* The third object of the process is a test instance, built while an
\* instance is cached, and its fields differ from the cached one's.
C9_Witness ==
    /\ last.op = "get_test_settings"
    /\ ~last.raised
    /\ _settings_instance # None
    /\ last.ret[1].id >= 3
    /\ last.ret[1].f # _settings_instance[1].f

\* What the latest call built.
BuiltFields == last.ret[1].f

\* Every field but the named ones validated.
OthersValid(src, names) == \A n \in FieldNames \ names : FieldResult(src, n).ok

\* C4: with every other field valid, construction fails when the default
\* processor is 'photoroom' and ENABLE_PHOTOROOM false, or 'pillow' and
\* ENABLE_PILLOW false, and succeeds when the chosen processor's toggle is
\* true; so an instance never has a disabled default processor.
C4_DefaultProcessorEnabled ==
    /\ (Attempted /\ OthersValid(UsedSource, {"DEFAULT_PROCESSOR"})) =>
           LET chosen == Get(UsedSource, "DEFAULT_PROCESSOR", "photoroom")
               toggle == IF chosen = "photoroom" THEN "ENABLE_PHOTOROOM"
                         ELSE "ENABLE_PILLOW"
               on == FieldResult(UsedSource, toggle).v
           IN  chosen \in {"photoroom", "pillow"} => (last.raised <=> ~on)
    /\ last.built =>
           /\ BuiltFields.DEFAULT_PROCESSOR = "photoroom" => BuiltFields.ENABLE_PHOTOROOM
           /\ BuiltFields.DEFAULT_PROCESSOR = "pillow" => BuiltFields.ENABLE_PILLOW

\* What C5 calls a bad bot token and a bad API key.
BadToken(src) ==
    \/ "TELEGRAM_BOT_TOKEN" \notin DOMAIN src
    \/ src["TELEGRAM_BOT_TOKEN"] \in {"", "your_telegram_bot_token_here"}
    \/ ~Contains(src["TELEGRAM_BOT_TOKEN"], ":")
    \/ Len(src["TELEGRAM_BOT_TOKEN"]) < 30

BadKey(src) ==
    \/ "PHOTOROOM_API_KEY" \notin DOMAIN src
    \/ src["PHOTOROOM_API_KEY"] \in {"", "your_photoroom_api_key_here"}

\* C5: construction fails, naming the secret, whenever the bot token or the
\* API key is unset, empty or its placeholder, or the token has no ':' or
\* fewer than 30 characters, whatever the other fields hold; so a returned or
\* cached instance has a token with ':' and length >= 30 and a non-empty,
\* non-placeholder key.
C5_SecretsRequired ==
    /\ Attempted =>
           /\ BadToken(UsedSource) =>
                  last.raised /\ last.ret = None /\ "TELEGRAM_BOT_TOKEN" \in last.errs
           /\ BadKey(UsedSource) =>
                  last.raised /\ last.ret = None /\ "PHOTOROOM_API_KEY" \in last.errs
    /\ \A x \in {y \in {last.ret, _settings_instance} : y # None} :
           /\ Contains(x[1].f.TELEGRAM_BOT_TOKEN, ":")
           /\ Len(x[1].f.TELEGRAM_BOT_TOKEN) >= 30
           /\ x[1].f.PHOTOROOM_API_KEY \notin {"", "your_photoroom_api_key_here"}

\* get_settings raised over the token alone: it has a ':' and 29 characters,
\* and the key is valid.
C5_Witness ==
    /\ last.op = "get_settings"
    /\ last.raised
    /\ "TELEGRAM_BOT_TOKEN" \in DOMAIN SettingsSource
    /\ Contains(SettingsSource["TELEGRAM_BOT_TOKEN"], ":")
    /\ Len(SettingsSource["TELEGRAM_BOT_TOKEN"]) = 29
    /\ last.errs = {"TELEGRAM_BOT_TOKEN"}

\* The limits C6 states for each numeric field.
ClaimedRange(n) ==
    CASE n = "PORT" -> <<1000, 65535>>
      [] n = "MAX_IMAGE_SIZE_MB" -> <<1, 50>>
      [] n = "DEFAULT_IMAGE_QUALITY" -> <<1, 100>>
      [] n = "REQUEST_TIMEOUT" -> <<5, 120>>
      [] n = "SESSION_TTL" -> <<300, 86400>>
      [] n = "RATE_LIMIT_PER_MINUTE" -> <<1, 1000>>

C7_WebhookPlaceholder ==
    (Attempted /\ "WEBHOOK_URL" \in DOMAIN UsedSource) =>
        /\ "WEBHOOK_URL" \notin last.errs
        /\ last.built =>
               BuiltFields.WEBHOOK_URL =
                   IF StartsWith(UsedSource["WEBHOOK_URL"], "https://yourdomain")
                   THEN None
                   ELSE Some(UsedSource["WEBHOOK_URL"])

\* An instance built from WEBHOOK_URL=https://yourdomain.com holds None.
C7_Witness ==
    /\ last.op = "get_settings"
    /\ last.built
    /\ "WEBHOOK_URL" \in DOMAIN SettingsSource
    /\ SettingsSource["WEBHOOK_URL"] = "https://yourdomain.com"
    /\ BuiltFields.WEBHOOK_URL = None

\* C8 as stated: is_development is true exactly when HOST is '127.0.0.1' or
\* PORT is 8000 or 8080, and is_production exactly when WEBHOOK_URL is
\* present and is_development is false.
C8_DevelopmentOnlyLoopbackAddress ==
    last.built =>
        /\ is_development(BuiltFields) <=>
               (BuiltFields.HOST = "127.0.0.1" \/ BuiltFields.PORT \in {8000, 8080})
        /\ is_production(BuiltFields) <=>
               (BuiltFields.WEBHOOK_URL # None /\ ~is_development(BuiltFields))

\* C8 amended: is_development is true exactly when HOST is '127.0.0.1' or
\* 'localhost' or PORT is 8000 or 8080, and is_production exactly when
\* WEBHOOK_URL is present, HOST is neither of the two and PORT neither of
\* the two.
C8_DevelopmentAndProduction ==
    last.built =>
        /\ is_development(BuiltFields) <=>
               \/ BuiltFields.HOST \in {"127.0.0.1", "localhost"}
               \/ BuiltFields.PORT \in {8000, 8080}
        /\ is_production(BuiltFields) <=>
               /\ BuiltFields.WEBHOOK_URL # None
               /\ BuiltFields.HOST \notin {"127.0.0.1", "localhost"}
               /\ BuiltFields.PORT \notin {8000, 8080}
        /\ webhook_enabled(BuiltFields) <=> is_production(BuiltFields)

\* An instance with HOST=localhost, a port that is not a local default and a
\* webhook URL: development, not production.
C8_Witness ==
    /\ last.built
    /\ BuiltFields.HOST = "localhost"
    /\ BuiltFields.PORT = 9000
    /\ BuiltFields.WEBHOOK_URL # None
    /\ is_development(BuiltFields)
    /\ ~is_production(BuiltFields)

\* C10: with get_settings and reload_settings interleaved between threads in
\* a valid environment, every call that returns hands back an instance.
C10_ReturnsInstance ==
    \A t \in Threads :
        (rets[t].op # "none" /\ ~rets[t].raised) => rets[t].value # None

====
